---------------------------- MODULE Spec2Model ----------------------------
(***************************************************************************)
(* A model of spacewar (src/src/main.rs): the Ship, Bullet and Mook        *)
(* entities, the Board that owns them, the held-key set and the game loop. *)
(*                                                                         *)
(* Numbers.  The program computes in f32: IEEE 754 binary32, every result  *)
(* rounded to the nearest f32, ties to the even significand.  The model    *)
(* computes the same values.  An f32 is the record [m, e] that stands for  *)
(* m * 2^e, where 2^23 <= |m| < 2^24, or m = 0 and e = 0 for zero: 1.0 is  *)
(* [m |-> 8388608, e |-> -23].  FAdd, FMul, FDiv and FSqrt return the      *)
(* correctly rounded result, as the hardware does; F32(n, d) is the f32    *)
(* nearest to n/d, which is what a decimal literal denotes (0.02 is        *)
(* F32(2, 100)).  The values in play stay far from overflow and underflow, *)
(* so infinities, NaN and subnormal numbers have no representation here,   *)
(* and -0.0 is not told from 0.0.  cos and sin are given by a table of     *)
(* their f32 values at the orientations the ship can have within the       *)
(* bounds.                                                                 *)
(***************************************************************************)
EXTENDS Integers, Sequences, FiniteSets, TLC

VARIABLES
    board,      \* the Board: ship, mooks, bullets, bulletct, mookct
    keysdown,   \* window.events.0, the set of held keys
    pc,         \* position of the game loop ("api" outside it, "panic" after
                \* a failed unwrap)
    last,       \* history: <<operation, argument>> of the last operation
    trace,      \* history: the passes the last Board.step ran, in order
    nfired,     \* history: number of Board.fire calls so far
    nspawned,   \* history: number of Board.add_mook calls so far
    applied,    \* history: the keys whose intent this tick has applied, in order
    ticks,      \* history: number of loop iterations begun
    nevents,    \* history: number of events polled so far
    msteps,     \* history: number of Board.step calls that advanced a mook
    nops        \* history: number of Ship operations called (SpecShip)

vars == <<board, keysdown, pc, last, trace, nfired, nspawned, applied, ticks,
          nevents, msteps, nops>>

---------------------------------------------------------------------------
(* Bounds of the model *)

\* SpecBoard: Board.fire is called at most MaxBullets times
MaxBullets == 2
\* SpecBoard: Board.add_mook is called at most MaxMooks times
MaxMooks == 2
\* SpecBoard: a mook is followed for at most MaxMookSteps steps
MaxMookSteps == 2
\* SpecShots: the ship is turned at most MaxTurns times
MaxTurns == 1
\* Spec: the game loop runs at most MaxTicks iterations
MaxTicks == 3
\* Spec: at most MaxEvents events are polled in a run
MaxEvents == 3
\* SpecShip: at most MaxShipOps operations are called on the ship
MaxShipOps == 6
\* SpecWrap: wrap is applied at most MaxWraps times to a position
MaxWraps == 2
\* SpecMook: a mook is followed for at most MaxFieldSteps steps
MaxFieldSteps == 12
\* SpecPilot: the game loop runs at most MaxPilotTicks iterations
MaxPilotTicks == 420
\* SpecWorn: the mook has taken at most MaxHits hits
MaxHits == 3

---------------------------------------------------------------------------
(* f32 arithmetic *)

Abs(n) == IF n < 0 THEN -n ELSE n

Sign(n) == IF n < 0 THEN -1 ELSE 1

\* the f32 m * 2^e
Flt(m, e) == [m |-> m, e |-> e]

FZero == Flt(0, 0)

\* the f32 values.  The operations below are functions on them, not
\* operators: an argument is then a value when the operation reads it,
\* however deep the expression it came from
F32s == [m : Int, e : Int]

\* the number of bits of n >= 0: the least L with n < 2^L
BitLen[n \in Nat] == IF n = 0 THEN 0 ELSE 1 + BitLen[n \div 2]

\* the f32 nearest to s * (n + d) * 2^e, ties to even, where n > 0 has L
\* bits, s is 1 or -1, and d is 0, or some value strictly between 0 and 1
\* when sticky holds (n then has 25 bits or more)
RoundBits[s \in {-1, 1}, n \in Nat, sticky \in BOOLEAN, e \in Int, L \in Nat] ==
    IF L <= 24 THEN Flt(s * n * 2^(24 - L), e - (24 - L))
    ELSE LET k == L - 24
             q == n \div 2^k
             r == n % 2^k
             half == 2^(k - 1)
             up == \/ r > half
                   \/ r = half /\ (sticky \/ q % 2 = 1)
         IN  IF up /\ q + 1 = 2^24 THEN Flt(s * 2^23, e + k + 1)
             ELSE Flt(s * (IF up THEN q + 1 ELSE q), e + k)

Round[s \in {-1, 1}, n \in Nat, sticky \in BOOLEAN, e \in Int] ==
    RoundBits[s, n, sticky, e, BitLen[n]]

\* the f32 nearest to n * 2^e, for an integer n of less than 31 bits
RoundInt(n, e) == IF n = 0 THEN FZero ELSE Round[Sign(n), Abs(n), FALSE, e]

\* -a
FNeg(a) == [a EXCEPT !.m = -a.m]

\* a.abs()
FAbs(a) == [a EXCEPT !.m = Abs(a.m)]

\* a + b.  With the exponents d <= 5 apart the sum of the two significands
\* is formed exactly.  Further apart, the smaller operand is cut to the bits
\* down to 2^-5 of the larger one's last place, and one more bit is set when
\* the cut dropped anything: the sum then rounds as the exact sum does.
AddF32[a \in F32s, b \in F32s] ==
    IF a.m = 0 THEN b
    ELSE IF b.m = 0 THEN a
    ELSE LET hi == IF a.e >= b.e THEN a ELSE b
             lo == IF a.e >= b.e THEN b ELSE a
             d == hi.e - lo.e
         IN  IF d <= 5 THEN RoundInt(hi.m * 2^d + lo.m, lo.e)
             ELSE IF d >= 30 THEN hi
             ELSE LET cut == Abs(lo.m) \div 2^(d - 5)
                      lost == IF Abs(lo.m) % 2^(d - 5) # 0 THEN 1 ELSE 0
                  IN  RoundInt(hi.m * 64 + Sign(lo.m) * (2 * cut + lost),
                               hi.e - 6)

FAdd(a, b) == AddF32[a, b]

\* a - b
FSub(a, b) == AddF32[a, FNeg(b)]

\* a * b: the 48-bit product of the significands, formed from 12-bit halves
MulF32[a \in F32s, b \in F32s] ==
    IF a.m = 0 \/ b.m = 0 THEN FZero
    ELSE LET x == Abs(a.m)
             y == Abs(b.m)
             xh == x \div 4096
             xl == x % 4096
             yh == y \div 4096
             yl == y % 4096
             mid == xh * yl + xl * yh
             low == (mid % 4096) * 4096 + xl * yl
             \* the product is top * 2^24 + bot
             top == xh * yh + mid \div 4096 + low \div 2^24
             bot == low % 2^24
         IN  Round[Sign(a.m) * Sign(b.m), top * 4 + bot \div 2^22,
                   bot % 2^22 # 0, a.e + b.e + 22]

FMul(a, b) == MulF32[a, b]

\* n more bits of the quotient q of a division by d that has left r
DivBits[r \in Nat, d \in Nat, n \in Nat, q \in Nat] ==
    IF n = 0 THEN [q |-> q, r |-> r]
    ELSE DivBits[(2 * r) % d, d, n - 1, 2 * q + (2 * r) \div d]

\* a / b, b not zero: the quotient of the significands to 25 bits after
\* the point
DivF32[a \in F32s, b \in F32s] ==
    IF a.m = 0 THEN FZero
    ELSE LET x == Abs(a.m)
             y == Abs(b.m)
             qr == DivBits[x % y, y, 25, x \div y]
         IN  Round[Sign(a.m) * Sign(b.m), qr.q, qr.r # 0, a.e - b.e - 25]

FDiv(a, b) == DivF32[a, b]

\* the square root of n * 4^j, digit by digit: i pairs of bits of n are
\* still to come, then j pairs of zeros
SqrtBits[n \in Nat, i \in Nat, j \in Nat, rem \in Nat, root \in Nat] ==
    IF i = 0 /\ j = 0 THEN [root |-> root, rem |-> rem]
    ELSE LET pair == IF i > 0 THEN (n \div 4^(i - 1)) % 4 ELSE 0
             r == 4 * rem + pair
             t == 4 * root + 1
             i1 == IF i > 0 THEN i - 1 ELSE 0
             j1 == IF i > 0 THEN j ELSE j - 1
         IN  IF r >= t THEN SqrtBits[n, i1, j1, r - t, 2 * root + 1]
                       ELSE SqrtBits[n, i1, j1, r, 2 * root]

\* a.sqrt(), a >= 0
SqrtF32[a \in F32s] ==
    IF a.m = 0 THEN FZero
    ELSE LET odd == a.e % 2 # 0
             n == IF odd THEN 2 * a.m ELSE a.m
             e == IF odd THEN a.e - 1 ELSE a.e
             s == SqrtBits[n, 13, 13, 0, 0]
         IN  Round[1, s.root, s.rem # 0, (e \div 2) - 13]

FSqrt(a) == SqrtF32[a]

\* a < b
LessF32[a \in F32s, b \in F32s] ==
    IF a.m < 0 /\ b.m < 0
       THEN a.e > b.e \/ (a.e = b.e /\ a.m < b.m)
    ELSE IF a.m > 0 /\ b.m > 0
       THEN a.e < b.e \/ (a.e = b.e /\ a.m < b.m)
    ELSE a.m < b.m

FLess(a, b) == LessF32[a, b]

\* a > b
FGreater(a, b) == LessF32[b, a]

\* a <= b
FLessEq(a, b) == ~LessF32[b, a]

\* the f32 nearest to n / d, for integers of less than 25 bits, d not zero:
\* the value of a decimal literal
F32(n, d) == FDiv(RoundInt(n, 0), RoundInt(d, 0))

One == RoundInt(1, 0)

Two == RoundInt(2, 0)

MinusOne == RoundInt(-1, 0)

(* Vec2<f32> *)
Vec2(x, y) == [x |-> x, y |-> y]

\* v + w
VAdd(v, w) == Vec2(FAdd(v.x, w.x), FAdd(v.y, w.y))

\* v * s
VScale(v, s) == Vec2(FMul(v.x, s), FMul(v.y, s))

\* v.sqnorm(): x * x + y * y
sqnorm(v) == FAdd(FMul(v.x, v.x), FMul(v.y, v.y))

\* v.norm(): sqnorm().sqrt()
norm(v) == FSqrt(sqnorm(v))

\* v.norm() > 1.0
NormExceedsOne(v) == FGreater(norm(v), One)

\* v.normalize_mut(): each component divided by the norm
normalize(v) == Vec2(FDiv(v.x, norm(v)), FDiv(v.y, norm(v)))

---------------------------------------------------------------------------
(* Program constants *)

ACCEL == F32(1, 100)
STEP == F32(2, 100)
\* Ship::fire: the factor 2.0 on the orientation vector
MuzzleSpeed == RoundInt(2, 0)
\* Board::sweep: the threshold 2.0 on the squared norm
SweepLimit == RoundInt(2, 0)
\* wrap: the threshold 1.05
WrapLimit == F32(105, 100)
\* std::f32::consts::PI
PI == Flt(13176795, -22)
\* game_loop: Left and Right turn by 10.0 * PI / 180.
TurnAngle == FDiv(FMul(RoundInt(10, 0), PI), RoundInt(180, 0))
\* Mook::step: orient += 0.1
Spin == F32(1, 10)
\* Mook::new: health 1.0, level 5
MookHealth == RoundInt(1, 0)
MookLevel == 5
\* Ship::new: health 1.0
ShipHealth == RoundInt(1, 0)

\* Mook::random: random_vec() * 0.5
Half == F32(1, 2)

\* the ship's orientations after at most twelve turns, each with its cosine
\* and its sine: <<m, e>> of the orientation, of f32::cos and of f32::sin
OrientTab ==
    << <<-8784529, -22, -16777211, -25, -14529497, -24>>,
       <<-16104970, -23, -11476287, -25, -15765427, -24>>,
       <<-14640882, -23, -11653325, -26, -16522333, -24>>,
       <<-13176794, -23, 10625385, -47, -8388608, -23>>,
       <<-11712706, -23, 11653335, -26, -16522332, -24>>,
       <<-10248618, -23, 11476292, -25, -15765426, -24>>,
       <<-8784531, -23, 16777212, -25, -14529497, -24>>,
       <<-8784530, -23, 16777215, -25, -14529496, -24>>,
       <<-14640885, -24, 10784185, -24, -12852094, -24>>,
       <<-14640884, -24, 10784186, -24, -12852094, -24>>,
       <<-14640883, -24, 10784187, -24, -12852093, -24>>,
       <<-11712708, -24, 12852092, -24, -10784188, -24>>,
       <<-11712707, -24, 12852093, -24, -10784187, -24>>,
       <<-11712706, -24, 12852093, -24, -10784186, -24>>,
       <<-8784531, -24, 14529495, -24, -8388609, -24>>,
       <<-8784530, -24, 14529495, -24, -8388608, -24>>,
       <<-8784529, -24, 14529496, -24, -16777215, -25>>,
       <<-11712708, -25, 15765426, -24, -11476293, -25>>,
       <<-11712707, -25, 15765426, -24, -11476292, -25>>,
       <<-11712706, -25, 15765426, -24, -11476291, -25>>,
       <<-11712704, -25, 15765426, -24, -11476289, -25>>,
       <<-11712709, -26, 16522332, -24, -11653335, -26>>,
       <<-11712707, -26, 16522332, -24, -11653333, -26>>,
       <<-11712705, -26, 16522332, -24, -11653331, -26>>,
       <<-11712701, -26, 16522333, -24, -11653327, -26>>,
       <<-12582912, -47, 8388608, -23, -12582912, -47>>,
       <<-8388608, -48, 8388608, -23, -8388608, -48>>,
       <<0, 0, 8388608, -23, 0, 0>>,
       <<8388608, -48, 8388608, -23, 8388608, -48>>,
       <<12582912, -47, 8388608, -23, 12582912, -47>>,
       <<11712701, -26, 16522333, -24, 11653327, -26>>,
       <<11712705, -26, 16522332, -24, 11653331, -26>>,
       <<11712707, -26, 16522332, -24, 11653333, -26>>,
       <<11712709, -26, 16522332, -24, 11653335, -26>>,
       <<11712704, -25, 15765426, -24, 11476289, -25>>,
       <<11712706, -25, 15765426, -24, 11476291, -25>>,
       <<11712707, -25, 15765426, -24, 11476292, -25>>,
       <<11712708, -25, 15765426, -24, 11476293, -25>>,
       <<8784529, -24, 14529496, -24, 16777215, -25>>,
       <<8784530, -24, 14529495, -24, 8388608, -24>>,
       <<8784531, -24, 14529495, -24, 8388609, -24>>,
       <<11712706, -24, 12852093, -24, 10784186, -24>>,
       <<11712707, -24, 12852093, -24, 10784187, -24>>,
       <<11712708, -24, 12852092, -24, 10784188, -24>>,
       <<14640883, -24, 10784187, -24, 12852093, -24>>,
       <<14640884, -24, 10784186, -24, 12852094, -24>>,
       <<14640885, -24, 10784185, -24, 12852094, -24>>,
       <<8784530, -23, 16777215, -25, 14529496, -24>>,
       <<8784531, -23, 16777212, -25, 14529497, -24>>,
       <<10248618, -23, 11476292, -25, 15765426, -24>>,
       <<11712706, -23, 11653335, -26, 16522332, -24>>,
       <<13176794, -23, 10625385, -47, 8388608, -23>>,
       <<14640882, -23, -11653325, -26, 16522333, -24>>,
       <<16104970, -23, -11476287, -25, 15765427, -24>>,
       <<8784529, -22, -16777211, -25, 14529497, -24>> >>

\* the row of OrientTab for orientation o
OrientRow(o) == CHOOSE i \in DOMAIN OrientTab :
                    OrientTab[i][1] = o.m /\ OrientTab[i][2] = o.e

\* o.cos()
Cos(o) == Flt(OrientTab[OrientRow(o)][3], OrientTab[OrientRow(o)][4])

\* o.sin()
Sin(o) == Flt(OrientTab[OrientRow(o)][5], OrientTab[OrientRow(o)][6])

---------------------------------------------------------------------------
---------------------------------------------------------------------------
(* Inputs *)

\* rand::random::<f32>() lies in [0, 1): the least draw, 0.0; the greatest,
\* 1 - 2^-24; and 0.25, 0.5 and 0.75 between them
RandLo == FZero

RandHi == Flt(2^24 - 1, -24)

RandMid == F32(1, 2)

RandQuarter == F32(1, 4)

RandThreeQuarters == F32(3, 4)

\* Mook::random draws five values: two for the position, two for the
\* velocity, one for the orientation.
RandDraws ==
    { <<RandMid, RandMid, RandMid, RandMid, RandLo>>,
      <<RandHi, RandLo, RandHi, RandLo, RandHi>> }

\* draws for SpecMook: the least draw 0, the greatest below 1, and values
\* between, for each position component and each velocity component
FieldDraws ==
    { <<p1, p2, v1, v2, RandLo>> :
          p1, p2 \in {RandLo, RandMid, RandHi},
          v1, v2 \in {RandLo, RandQuarter, RandMid, RandThreeQuarters, RandHi} }

\* the draws of the one add_mook call of main()
MainDraws == { <<RandHi, RandLo, RandHi, RandLo, RandHi>> }

\* the components wrap is called with: zero, small values, the threshold
\* 1.05 itself, the f32 next below it and the f32 next above it, and values
\* well beyond it, of both signs
WrapInputs ==
    LET below == Flt(WrapLimit.m - 1, WrapLimit.e)
        above == Flt(WrapLimit.m + 1, WrapLimit.e)
    IN  {FZero, F32(1, 10000), F32(-1, 10000),
         below, WrapLimit, above, FNeg(below), FNeg(WrapLimit), FNeg(above),
         F32(107, 100), FNeg(Two)}

---------------------------------------------------------------------------
(* wrap and random_vec *)

\* wrap that also negates a component of exactly 1.05
wrap_Inclusive(v) ==
    CHOOSE w \in
        {Vec2(IF FLessEq(WrapLimit, FAbs(p.x)) THEN FMul(p.x, MinusOne) ELSE p.x,
              IF FLessEq(WrapLimit, FAbs(p.y)) THEN FMul(p.y, MinusOne) ELSE p.y) :
            p \in {v}} : TRUE

\* p: the vector v refers to, evaluated once at the call
wrap(v) ==
    CHOOSE w \in
        {Vec2(IF FGreater(FAbs(p.x), WrapLimit) THEN FMul(p.x, MinusOne) ELSE p.x,
              IF FGreater(FAbs(p.y), WrapLimit) THEN FMul(p.y, MinusOne) ELSE p.y) :
            p \in {v}} : TRUE

\* two draws r1, r2 in [0,1) give (r1 * 2.0 - 1.0, r2 * 2.0 - 1.0)
random_vec(r1, r2) ==
    Vec2(FSub(FMul(r1, Two), One), FSub(FMul(r2, Two), One))

---------------------------------------------------------------------------
(* Ship *)

Ship_new ==
    [pos |-> Vec2(FZero, FZero), vel |-> Vec2(FZero, FZero), orient |-> FZero,
     health |-> ShipHealth]

orient_vec(s) == Vec2(Cos(s.orient), Sin(s.orient))

Ship_step(s) ==
    [s EXCEPT !.pos = wrap(VAdd(s.pos, VScale(s.vel, STEP)))]

\* Ship::accelerate without the cap on the speed
Ship_accelerate_NoCap(s, a) ==
    [s EXCEPT !.vel = VAdd(s.vel, VScale(orient_vec(s), a))]

Ship_accelerate(s, a) ==
    LET v == VAdd(s.vel, VScale(orient_vec(s), a))
    IN  [s EXCEPT !.vel = IF NormExceedsOne(v) THEN normalize(v) ELSE v]

Ship_accel(s) == Ship_accelerate(s, ACCEL)

Ship_decel(s) == Ship_accelerate(s, FMul(MinusOne, ACCEL))

(* Bullet *)

Bullet_new(pos, vel) == [pos |-> pos, vel |-> vel]

\* Ship::fire whose bullet inherits the ship's velocity
Ship_fire_Inherit(s) ==
    Bullet_new(s.pos, VAdd(s.vel, VScale(orient_vec(s), MuzzleSpeed)))

Ship_fire(s) == Bullet_new(s.pos, VScale(orient_vec(s), MuzzleSpeed))

\* Bullet::step that wraps the position as Ship::step does
Bullet_step_Wrap(b) ==
    [b EXCEPT !.pos = wrap(VAdd(b.pos, VScale(b.vel, STEP)))]

Bullet_step(b) == [b EXCEPT !.pos = VAdd(b.pos, VScale(b.vel, STEP))]

(* Mook *)

Mook_new(pos, vel, orient) ==
    [pos |-> pos, vel |-> vel, orient |-> orient,
     health |-> MookHealth, level |-> MookLevel]

\* Mook::random whose velocity is not halved
Mook_random_Fast(d) ==
    Mook_new(random_vec(d[1], d[2]),
             random_vec(d[3], d[4]),
             FMul(FMul(d[5], Two), PI))

\* d: the five random draws, in the order the arguments are evaluated
Mook_random(d) ==
    Mook_new(random_vec(d[1], d[2]),
             VScale(random_vec(d[3], d[4]), Half),
             FMul(FMul(d[5], Two), PI))

\* Mook::step that also wears the mook's health down
Mook_step_Wear(m) ==
    [m EXCEPT !.pos = wrap(VAdd(m.pos, VScale(m.vel, STEP))),
              !.orient = FAdd(m.orient, Spin),
              !.health = FSub(m.health, Spin)]

Mook_step(m) ==
    [m EXCEPT !.pos = wrap(VAdd(m.pos, VScale(m.vel, STEP))),
              !.orient = FAdd(m.orient, Spin)]

---------------------------------------------------------------------------
(* Board *)

\* HashMap::new()
EmptyMap == [k \in {} |-> 0]

\* HashMap::insert: the entry under key k is set, whether or not k was present
Insert(map, k, v) == [j \in DOMAIN map \cup {k} |-> IF j = k THEN v ELSE map[j]]

\* the map without the keys in ks
RemoveAll(map, ks) == [j \in DOMAIN map \ ks |-> map[j]]

Board_new ==
    [ship |-> Ship_new, mooks |-> EmptyMap, bullets |-> EmptyMap,
     bulletct |-> 0, mookct |-> 0]

\* the orders in which a HashSet holding the keys S may be iterated
Orders(S) ==
    {o \in [1..Cardinality(S) -> S] : \A i, j \in DOMAIN o : o[i] = o[j] => i = j}

\* HashMap::remove(&id): the map without id, and whether id had an entry
\* (Some) or not (None)
remove(map, id) ==
    [map |-> [j \in DOMAIN map \ {id} |-> map[j]], some |-> id \in DOMAIN map]

\* the first loop of Board::sweep that pushes every id twice
to_rm_vec_Twice(b, order) ==
    LET Far(id) == FGreater(sqnorm(b.bullets[id].pos), SweepLimit)
    IN  SelectSeq(order, Far) \o SelectSeq(order, Far)

\* the first loop of Board::sweep, iterating the bullets in the order
\* `order`: the Vec to_rm of the ids pushed
to_rm_vec(b, order) ==
    LET Far(id) == FGreater(sqnorm(b.bullets[id].pos), SweepLimit)
    IN  SelectSeq(order, Far)

\* the second loop of Board::sweep over the Vec ids: the map left, and ok,
\* which is FALSE when an unwrap() met None
RECURSIVE sweep_remove(_, _)
sweep_remove(map, ids) ==
    IF ids = <<>> THEN [map |-> map, ok |-> TRUE]
    ELSE LET r == remove(map, Head(ids))
         IN  IF r.some THEN sweep_remove(r.map, Tail(ids))
                       ELSE [map |-> map, ok |-> FALSE]

\* no unwrap() of Board::sweep fails on board b, however the map is iterated
sweep_ok(b) ==
    \A order \in Orders(DOMAIN b.bullets) :
        sweep_remove(b.bullets, to_rm_vec(b, order)).ok

\* the first loop of Board::sweep: the ids of the bullets with sqnorm > 2.0
to_rm(b) ==
    {id \in DOMAIN b.bullets : FGreater(sqnorm(b.bullets[id].pos), SweepLimit)}

\* Board::sweep that also resets bulletct to the number of live bullets
Board_sweep_Reclaim(b) ==
    LET kept == RemoveAll(b.bullets, to_rm(b))
    IN  [b EXCEPT !.bullets = kept, !.bulletct = Cardinality(DOMAIN kept)]

Board_sweep(b) == [b EXCEPT !.bullets = RemoveAll(b.bullets, to_rm(b))]

\* the passes Board::step runs, in order
StepPasses == <<"ship", "bullets", "mooks", "sweep">>

\* Board::step up to the sweep: ship, then bullets, then mooks are advanced
Board_advance(b) ==
    [b EXCEPT !.ship = Ship_step(b.ship),
              !.bullets = [k \in DOMAIN b.bullets |-> Bullet_step(b.bullets[k])],
              !.mooks = [k \in DOMAIN b.mooks |-> Mook_step(b.mooks[k])]]

\* Board::step with the sweep run before the entities are advanced
Board_step_SweepFirst(b) ==
    CHOOSE r \in {Board_advance(a) : a \in {Board_sweep(b)}} : TRUE

\* a: the board as the three passes leave it, which sweep then works on
Board_step(b) ==
    CHOOSE r \in {Board_sweep(a) : a \in {Board_advance(b)}} : TRUE

Board_fire(b) ==
    [b EXCEPT !.bullets = Insert(b.bullets, b.bulletct, Ship_fire(b.ship)),
              !.bulletct = b.bulletct + 1]

\* Board::add_mook without the increment of mookct
Board_add_mook_NoIncr(b, d) ==
    [b EXCEPT !.mooks = Insert(b.mooks, b.mookct, Mook_random(d))]

Board_add_mook(b, d) ==
    [b EXCEPT !.mooks = Insert(b.mooks, b.mookct, Mook_random(d)),
              !.mookct = b.mookct + 1]

---------------------------------------------------------------------------
(* Collision detection as the specification describes it.  The source calls  *)
(* near_detect and exact_detect from Board::collision_detect and defines     *)
(* neither; Board::step does not call Board::collision_detect.               *)

\* damage per hit
Damage == F32(1, 2)
\* bounding radius of a mook, per level: the half diagonal of its square
MookBound == F32(354, 10000)
\* exact radius of a mook, per level: the half side of its square
MookExact == F32(25, 1000)
\* bounding radius of a bullet
BulletBound == F32(1, 100)

sqdist(v, w) == sqnorm(Vec2(FSub(v.x, w.x), FSub(v.y, w.y)))

\* broad phase: the bounding circles of mook m and bullet b overlap
near_detect(m, b) ==
    LET r == FAdd(FMul(RoundInt(m.level, 0), MookBound), BulletBound)
    IN  FLessEq(sqdist(m.pos, b.pos), FMul(r, r))

\* exact phase: the bullet lies within the mook's exact radius
exact_detect(m, b) ==
    LET r == FMul(RoundInt(m.level, 0), MookExact)
    IN  FLessEq(sqdist(m.pos, b.pos), FMul(r, r))

---------------------------------------------------------------------------
(* History *)

Op(op, key, val) == [op |-> op, key |-> key, val |-> val]

\* a turn that swings the velocity round to the new orientation
Ship_turn_Redirect(s, a) ==
    [s EXCEPT !.orient = FAdd(s.orient, a),
              !.vel = Vec2(FMul(Cos(FAdd(s.orient, a)), norm(s.vel)),
                           FMul(Sin(FAdd(s.orient, a)), norm(s.vel)))]

\* game_loop, Left and Right arms: orient += a, where a is the turn angle
\* or, for `-=`, its negative
Ship_turn(s, a) == [s EXCEPT !.orient = FAdd(s.orient, a)]

---------------------------------------------------------------------------
(* SpecBoard: the operations on a Board, called in any order on Board::new() *)

InitBoard ==
    /\ board = Board_new
    /\ keysdown = {}
    /\ pc = "api"
    /\ last = Op("new", "", 0)
    /\ trace = <<>>
    /\ nfired = 0
    /\ nspawned = 0
    /\ applied = <<>>
    /\ ticks = 0
    /\ nevents = 0
    /\ msteps = 0
    /\ nops = 0

LoopIdle == UNCHANGED <<keysdown, pc, applied, ticks, nevents>>

\* board.step()
ApiStep ==
    /\ pc = "api"
    /\ board' = Board_step(board)
    /\ \E a \in {Board_advance(board)} :
          pc' = IF sweep_ok(a) THEN pc ELSE "panic"
    /\ trace' = StepPasses
    /\ msteps' = IF board.mooks = EmptyMap THEN msteps ELSE msteps + 1
    /\ last' = Op("step", "", 0)
    /\ UNCHANGED <<nfired, nspawned, nops, keysdown, applied, ticks, nevents>>

Step == (board.mooks = EmptyMap \/ msteps < MaxMookSteps) /\ ApiStep

\* board.fire()
Fire ==
    /\ pc = "api"
    /\ board.bulletct < MaxBullets
    /\ board' = Board_fire(board)
    /\ nfired' = nfired + 1
    /\ last' = Op("fire", "", 0)
    /\ UNCHANGED <<trace, nspawned, msteps, nops>>
    /\ LoopIdle

\* board.add_mook()
AddMook ==
    /\ pc = "api"
    /\ board.mookct < MaxMooks
    /\ \E d \in RandDraws : board' = Board_add_mook(board, d)
    /\ nspawned' = nspawned + 1
    /\ last' = Op("add_mook", "", 0)
    /\ UNCHANGED <<trace, nfired, msteps, nops>>
    /\ LoopIdle

NextBoard == Step \/ Fire \/ AddMook

SpecBoard == InitBoard /\ [][NextBoard]_vars

---------------------------------------------------------------------------
(* Events and keys *)

\* VirtualKeyCode: the six keys game_loop matches, and "A" for any other key
Keys == {"Left", "Right", "Up", "Down", "Space", "Q", "A"}

Ev(kind, state, key) == [kind |-> kind, state |-> state, key |-> key]

\* Event::Closed, Event::KeyboardInput(state, _, Some(key)), and "Other" for
\* every event the match ignores
Events ==
    {Ev("Closed", "", ""), Ev("Other", "", "")}
        \cup {Ev("Key", st, k) : st \in {"Pressed", "Released"}, k \in Keys}

\* update_keysdown whose press of a held key removes it
update_keysdown_Toggle(held, keystate, key) ==
    IF keystate = "Pressed" /\ key \notin held THEN held \cup {key} ELSE held \ {key}

\* Events::update_keysdown
update_keysdown(held, keystate, key) ==
    IF keystate = "Pressed" THEN held \cup {key} ELSE held \ {key}

\* the match on *key: the board after the arm of key k (Q returns instead)
Intent(b, k) ==
    CASE k = "Left"  -> [b EXCEPT !.ship = Ship_turn(b.ship, TurnAngle)]
      [] k = "Right" -> [b EXCEPT !.ship = Ship_turn(b.ship, FNeg(TurnAngle))]
      [] k = "Up"    -> [b EXCEPT !.ship = Ship_accel(b.ship)]
      [] k = "Down"  -> [b EXCEPT !.ship = Ship_decel(b.ship)]
      [] k = "Space" -> Board_fire(b)
      [] OTHER       -> b

\* the intent loop without the return at Q: Q falls to the `_ => ()` arm
RECURSIVE apply_intents_NoQuit(_, _, _)
apply_intents_NoQuit(b, order, done) ==
    IF order = <<>> THEN [board |-> b, applied |-> done, quit |-> FALSE]
    ELSE apply_intents_NoQuit(Intent(b, Head(order)), Tail(order),
                              Append(done, Head(order)))

\* the intent loop that leaves the loop after the first key's arm
apply_intents_FirstOnly(b, order, done) ==
    IF order = <<>> THEN [board |-> b, applied |-> done, quit |-> FALSE]
    ELSE IF Head(order) = "Q" THEN [board |-> b, applied |-> done, quit |-> TRUE]
    ELSE [board |-> Intent(b, Head(order)), applied |-> Append(done, Head(order)),
          quit |-> FALSE]

\* `for key in &window.events.0 { match *key ... }` over the keys in the
\* order `order`: the board, the keys whose arm ran, and whether Q returned
RECURSIVE apply_intents(_, _, _)
apply_intents(b, order, done) ==
    IF order = <<>> THEN [board |-> b, applied |-> done, quit |-> FALSE]
    ELSE IF Head(order) = "Q" THEN [board |-> b, applied |-> done, quit |-> TRUE]
    ELSE apply_intents(Intent(b, Head(order)), Tail(order), Append(done, Head(order)))

---------------------------------------------------------------------------
(* Spec: main() and game_loop *)

\* main(): Board::new(), board.add_mook(), Window::new(), then game_loop
Init ==
    /\ \E d \in MainDraws : board = Board_add_mook(Board_new, d)
    /\ keysdown = {}
    /\ pc = "step"
    /\ last = Op("add_mook", "", 0)
    /\ trace = <<>>
    /\ nfired = 0
    /\ nspawned = 1
    /\ applied = <<>>
    /\ ticks = 0
    /\ nevents = 0
    /\ msteps = 0
    /\ nops = 0

\* board.step(), the first statement of an iteration
TickStep ==
    /\ pc = "step"
    /\ board' = Board_step(board)
    /\ trace' = StepPasses
    /\ ticks' = ticks + 1
    /\ msteps' = msteps + 1
    /\ applied' = <<>>
    /\ \E a \in {Board_advance(board)} :
          pc' = IF sweep_ok(a) THEN "render" ELSE "panic"
    /\ last' = Op("step", "", 0)
    /\ UNCHANGED <<keysdown, nfired, nspawned, nevents, nops>>

LoopStep == ticks < MaxTicks /\ TickStep

\* window.render that advances the entities while it draws them
Render_Advancing ==
    /\ pc = "render"
    /\ pc' = "events"
    /\ board' = Board_advance(board)
    /\ last' = Op("render", "", 0)
    /\ UNCHANGED <<keysdown, trace, nfired, nspawned, applied, ticks,
                   nevents, msteps, nops>>

\* window.render(&board, &assets): reads the board and the held keys
Render ==
    /\ pc = "render"
    /\ pc' = "events"
    /\ last' = Op("render", "", 0)
    /\ UNCHANGED <<board, keysdown, trace, nfired, nspawned, applied, ticks,
                   nevents, msteps, nops>>

\* one iteration of `for ev in window.display.poll_events()`: the iterator
\* yields the next queued event, whichever it is
HandleEvent ==
    /\ pc = "events"
    /\ nevents < MaxEvents
    /\ \E ev \in Events :
          /\ last' = Op(ev.kind, ev.key, IF ev.state = "Pressed" THEN 1 ELSE 0)
          /\ IF ev.kind = "Closed"
                THEN pc' = "done" /\ keysdown' = keysdown
                ELSE /\ pc' = pc
                     /\ keysdown' = IF ev.kind = "Key"
                                       THEN update_keysdown(keysdown, ev.state, ev.key)
                                       ELSE keysdown
    /\ nevents' = nevents + 1
    /\ UNCHANGED <<board, trace, nfired, nspawned, applied, ticks, msteps, nops>>

\* the iterator is exhausted; `for key in &window.events.0` runs, visiting
\* the held keys in an arbitrary order
Apply ==
    /\ pc = "events"
    /\ \E order \in Orders(keysdown) :
          LET r == apply_intents(board, order, <<>>)
          IN  /\ board' = r.board
              /\ applied' = r.applied
              /\ pc' = IF r.quit THEN "done" ELSE "step"
              /\ nfired' = IF \E i \in DOMAIN r.applied : r.applied[i] = "Space"
                              THEN nfired + 1 ELSE nfired
    /\ last' = Op("apply", "", 0)
    /\ UNCHANGED <<keysdown, trace, nspawned, ticks, nevents, msteps, nops>>

Next ==
    \/ LoopStep
    \/ Render
    \/ HandleEvent
    \/ Apply

Spec == Init /\ [][Next]_vars

---------------------------------------------------------------------------
(* SpecPilot: main() and game_loop with the player's key events given by a  *)
(* script: which key is held in which tick                                  *)

\* the key held for n ticks, segment after segment ("" for no key); after
\* the last segment the player holds Down and Up in alternate ticks
PilotScript ==
    << [key |-> "Left", n |-> 6], [key |-> "Up", n |-> 1],
       [key |-> "Down", n |-> 1], [key |-> "Right", n |-> 6],
       [key |-> "Up", n |-> 64], [key |-> "", n |-> 18],
       [key |-> "Down", n |-> 63], [key |-> "", n |-> 1] >>

RECURSIVE ScriptKey(_, _)
ScriptKey(script, t) ==
    IF script = <<>> THEN (IF t % 2 = 1 THEN "Down" ELSE "Up")
    ELSE IF t <= Head(script).n THEN Head(script).key
    ELSE ScriptKey(Tail(script), t - Head(script).n)

\* the key held when tick t applies the intents; none before the first tick
PilotKey(t) == IF t = 0 THEN "" ELSE ScriptKey(PilotScript, t)

\* the events poll_events() yields in tick t: the release of the key held
\* so far and the press of the key held from now on, if they differ
PilotBatch(t) ==
    LET old == PilotKey(t - 1)
        new == PilotKey(t)
    IN  IF old = new THEN <<>>
        ELSE (IF old = "" THEN <<>> ELSE <<Ev("Key", "Released", old)>>)
                 \o (IF new = "" THEN <<>> ELSE <<Ev("Key", "Pressed", new)>>)

\* `for ev in window.display.poll_events()` over the key events evs
RECURSIVE FoldEvents(_, _)
FoldEvents(held, evs) ==
    IF evs = <<>> THEN held
    ELSE FoldEvents(update_keysdown(held, Head(evs).state, Head(evs).key), Tail(evs))

PilotStep == ticks < MaxPilotTicks /\ TickStep

\* the poll loop of tick `ticks`, run to the end of the batch
PilotPoll ==
    /\ pc = "events"
    /\ last.op = "render"
    /\ keysdown' = FoldEvents(keysdown, PilotBatch(ticks))
    /\ nevents' = nevents + Len(PilotBatch(ticks))
    /\ last' = Op("poll", "", Len(PilotBatch(ticks)))
    /\ UNCHANGED <<board, pc, trace, nfired, nspawned, applied, ticks, msteps, nops>>

\* the intent loop, after the poll loop
PilotApply == last.op = "poll" /\ Apply

NextPilot == PilotStep \/ Render \/ PilotPoll \/ PilotApply

SpecPilot == Init /\ [][NextPilot]_vars

---------------------------------------------------------------------------
(* SpecShots: shots in several directions, Board::step, Board::fire and     *)
(* the turn of the ship in any order on Board::new()                        *)

\* board.ship.orient += / -= 10.0 * PI / 180.
Turn ==
    /\ pc = "api"
    /\ nops < MaxTurns
    /\ \E dir \in {1, -1} :
          /\ board' = [board EXCEPT !.ship =
                          Ship_turn(board.ship, IF dir = 1 THEN TurnAngle
                                                          ELSE FNeg(TurnAngle))]
          /\ last' = Op("turn", "", dir)
    /\ nops' = nops + 1
    /\ UNCHANGED <<trace, nfired, nspawned, msteps>>
    /\ LoopIdle

NextShots == Step \/ Fire \/ Turn

SpecShots == InitBoard /\ [][NextShots]_vars

\* the same, with the loop ticking on: game_loop calls board.step() in every
\* iteration, so a Board::step that can change the state is eventually taken
SpecShotsLive == SpecShots /\ WF_vars(Step)

---------------------------------------------------------------------------
(* SpecShip: the operations on the Ship, called in any order on Ship::new() *)

\* the values Ship::accelerate is called with: ACCEL, -1.0 * ACCEL, and
\* 0.6, -0.6 and 1.5, large enough to pass the cap within a call or two
AccelVals == {ACCEL, FMul(MinusOne, ACCEL), F32(6, 10), F32(-6, 10), F32(15, 10)}

\* board.ship.accelerate(a)
ShipAccelerate ==
    /\ pc = "api"
    /\ nops < MaxShipOps
    /\ \E a \in AccelVals :
          /\ board' = [board EXCEPT !.ship = Ship_accelerate(board.ship, a)]
          /\ last' = Op("accelerate", "", a)
    /\ nops' = nops + 1
    /\ UNCHANGED <<trace, nfired, nspawned, msteps>>
    /\ LoopIdle

\* board.ship.orient += / -= 10.0 * PI / 180.
ShipTurn ==
    /\ pc = "api"
    /\ nops < MaxShipOps
    /\ \E dir \in {1, -1} :
          /\ board' = [board EXCEPT !.ship =
                          Ship_turn(board.ship, IF dir = 1 THEN TurnAngle
                                                          ELSE FNeg(TurnAngle))]
          /\ last' = Op("turn", "", dir)
    /\ nops' = nops + 1
    /\ UNCHANGED <<trace, nfired, nspawned, msteps>>
    /\ LoopIdle

\* board.ship.step()
ShipStep ==
    /\ pc = "api"
    /\ nops < MaxShipOps
    /\ board' = [board EXCEPT !.ship = Ship_step(board.ship)]
    /\ last' = Op("ship_step", "", 0)
    /\ nops' = nops + 1
    /\ UNCHANGED <<trace, nfired, nspawned, msteps>>
    /\ LoopIdle

NextShip == ShipAccelerate \/ ShipTurn \/ ShipStep

SpecShip == InitBoard /\ [][NextShip]_vars

---------------------------------------------------------------------------
(* SpecWrap: wrap called on a position, any position of WrapInputs squared *)

InitWrap ==
    /\ \E x, y \in WrapInputs :
          board = [Board_new EXCEPT !.ship.pos = Vec2(x, y)]
    /\ keysdown = {}
    /\ pc = "api"
    /\ last = Op("new", "", 0)
    /\ trace = <<>>
    /\ nfired = 0
    /\ nspawned = 0
    /\ applied = <<>>
    /\ ticks = 0
    /\ nevents = 0
    /\ msteps = 0
    /\ nops = 0

\* wrap(&mut board.ship.pos)
Wrap ==
    /\ pc = "api"
    /\ nops < MaxWraps
    /\ board' = [board EXCEPT !.ship.pos = wrap(board.ship.pos)]
    /\ last' = Op("wrap", "", 0)
    /\ nops' = nops + 1
    /\ UNCHANGED <<trace, nfired, nspawned, msteps>>
    /\ LoopIdle

NextWrap == Wrap

SpecWrap == InitWrap /\ [][NextWrap]_vars

---------------------------------------------------------------------------
(* SpecMook: Board::new(), board.add_mook() with any draws of FieldDraws,   *)
(* then Board::step again and again                                         *)

InitMook ==
    /\ \E d \in FieldDraws : board = Board_add_mook(Board_new, d)
    /\ keysdown = {}
    /\ pc = "api"
    /\ last = Op("add_mook", "", 0)
    /\ trace = <<>>
    /\ nfired = 0
    /\ nspawned = 1
    /\ applied = <<>>
    /\ ticks = 0
    /\ nevents = 0
    /\ msteps = 0
    /\ nops = 0

FieldStep == msteps < MaxFieldSteps /\ ApiStep

NextMook == FieldStep

SpecMook == InitMook /\ [][NextMook]_vars

---------------------------------------------------------------------------
(* SpecWorn: Board::step, again and again, on a board whose mook has taken *)
(* hits.  Nothing in the source lowers a mook's health; the health after n *)
(* hits is what the collision response of the specification leaves: the    *)
(* health of Mook::new less n times the damage per hit.                    *)

\* mook m after n hits
Worn(m, n) == [m EXCEPT !.health = FSub(m.health, FMul(RoundInt(n, 0), Damage))]

InitWorn ==
    /\ \E d \in RandDraws, n \in 0 .. MaxHits :
          /\ board = [Board_add_mook(Board_new, d) EXCEPT !.mooks[0] = Worn(@, n)]
          /\ last = Op("hit", "", n)
    /\ keysdown = {}
    /\ pc = "api"
    /\ trace = <<>>
    /\ nfired = 0
    /\ nspawned = 1
    /\ applied = <<>>
    /\ ticks = 0
    /\ nevents = 0
    /\ msteps = 0
    /\ nops = 0

NextWorn == FieldStep

SpecWorn == InitWorn /\ [][NextWorn]_vars

---------------------------------------------------------------------------
(* Claims *)

\* the step from the current state to the next is a call of Board::step
IsBoardStep == last'.op = "step" /\ trace' = StepPasses

\* x * x + y * y <= 2.0, as f32 computes the left side
WithinSweepLimit(v) ==
    FLessEq(FAdd(FMul(v.x, v.x), FMul(v.y, v.y)), RoundInt(2, 0))

\* position p advanced by velocity u for one step: p + u * STEP
Advanced(p, u) ==
    Vec2(FAdd(p.x, FMul(u.x, STEP)), FAdd(p.y, FMul(u.y, STEP)))

\* C1  Bullet sweep: in every Board.step a bullet that was live is removed
\* if and only if its advanced position has x*x + y*y > 2.0 (a bullet at 2.0
\* or less stays, and stays unchanged but for its advance), so right after
\* Board.step no live bullet lies beyond 2.0.
C1_BulletSweep ==
    [][IsBoardStep =>
          /\ \A id \in DOMAIN board.bullets :
                LET b == board.bullets[id]
                    p == Advanced(b.pos, b.vel)
                IN  /\ id \in DOMAIN board'.bullets <=> WithinSweepLimit(p)
                    /\ id \in DOMAIN board'.bullets => board'.bullets[id].pos = p
          /\ DOMAIN board'.bullets \subseteq DOMAIN board.bullets
          /\ \A id \in DOMAIN board'.bullets :
                WithinSweepLimit(board'.bullets[id].pos)]_vars

\* C1 witness: after a step, the first bullet has been swept and the second,
\* shot off the x axis, is live within 0.1 of the threshold
C1_Witness ==
    /\ last.op = "step"
    /\ nfired = 2
    /\ DOMAIN board.bullets = {1}
    /\ board.bullets[1].pos.y # FZero
    /\ FGreater(sqnorm(board.bullets[1].pos), F32(19, 10))

\* the step from the current state to the next is a call of Board::fire
IsFire == nfired' = nfired + 1

\* the step from the current state to the next is a call of Board::add_mook
IsAddMook == nspawned' = nspawned + 1

\* map1 is map with one entry more, under key k, and k was free
InsertedFresh(map, map1, k) ==
    /\ k \notin DOMAIN map
    /\ DOMAIN map1 = DOMAIN map \cup {k}
    /\ \A j \in DOMAIN map : map1[j] = map[j]

\* C2  Key uniqueness: in any interleaving of Board.fire, Board.add_mook and
\* Board.step the k-th call of Board.fire inserts its bullet under key k-1
\* and the k-th call of Board.add_mook its mook under key k-1; the key is
\* free at the insert (no live entity is overwritten) and, being the number
\* of earlier calls, was never issued before.
C2_KeyUniqueness ==
    [][/\ IsFire => InsertedFresh(board.bullets, board'.bullets, nfired)
       /\ IsAddMook => InsertedFresh(board.mooks, board'.mooks, nspawned)]_vars

\* C2 witness: the second Board.add_mook has just inserted key 1 beside
\* the live mook 0, which a step has advanced; the second Board.fire had
\* inserted key 1 after bullet 0 was swept
C2_Witness ==
    /\ last.op = "add_mook"
    /\ nspawned = 2
    /\ DOMAIN board.mooks = {0, 1}
    /\ msteps >= 1
    /\ nfired = 2
    /\ DOMAIN board.bullets = {1}

\* C3  Tick order with collision pass: every Board.step advances the ship,
\* then the bullets, then the mooks, then runs the collision pass, then
\* sweeps.
C3_TickOrder ==
    last.op = "step" => trace = <<"ship", "bullets", "mooks", "collide", "sweep">>

\* the bullets of board b that, advanced, hit mook m, advanced
Hits(b, m) ==
    {id \in DOMAIN b.bullets :
        /\ near_detect(Mook_step(b.mooks[m]), Bullet_step(b.bullets[id]))
        /\ exact_detect(Mook_step(b.mooks[m]), Bullet_step(b.bullets[id]))}

\* C4  Collision symmetry: in a tick, a live bullet whose bounding circle
\* overlaps a live mook's and that passes the exact test is removed, and the
\* mook's health drops by the damage amount once per such bullet; a mook no
\* bullet's bounding circle overlaps keeps its health, and a bullet that
\* overlaps no mook is removed by the sweep alone.
C4_CollisionSymmetry ==
    [][IsBoardStep =>
          /\ \A m \in DOMAIN board.mooks :
                /\ \A id \in Hits(board, m) : id \notin DOMAIN board'.bullets
                /\ m \in DOMAIN board'.mooks =>
                      board'.mooks[m].health =
                          FSub(board.mooks[m].health,
                               FMul(Damage, RoundInt(Cardinality(Hits(board, m)), 0)))
          /\ \A id \in DOMAIN board.bullets :
                (\A m \in DOMAIN board.mooks :
                    ~near_detect(Mook_step(board.mooks[m]),
                                 Bullet_step(board.bullets[id])))
                    => (id \in DOMAIN board'.bullets
                           <=> WithinSweepLimit(Bullet_step(board.bullets[id]).pos))]_vars

KeysWithinCounters ==
    /\ \A k \in DOMAIN board.bullets : k <= board.bulletct
    /\ \A k \in DOMAIN board.mooks : k <= board.mookct

\* C10  Key/counter invariant: in every reachable Board state every key of
\* the bullet mapping is <= bulletct and every key of the mook mapping is
\* <= mookct, and no step decreases a counter.
C10_KeyCounter ==
    /\ []KeysWithinCounters
    /\ [][/\ board'.bulletct >= board.bulletct
          /\ board'.mookct >= board.mookct]_vars

\* C10 witness: a step has swept bullet 0 while bullet 1, under the largest
\* key issued, and mook 0 are live and both counters have advanced
C10_Witness ==
    /\ last.op = "step"
    /\ board.bulletct = 2
    /\ board.mookct = 1
    /\ DOMAIN board.bullets = {1}
    /\ DOMAIN board.mooks = {0}

\* v x w, the cross product, and v . w, the dot product
Cross(v, w) == FSub(FMul(v.x, w.y), FMul(v.y, w.x))

Dot(v, w) == FAdd(FMul(v.x, w.x), FMul(v.y, w.y))

\* the rounding epsilon: 2^-22, two units in the last place of 1.0
Epsilon == Flt(2^23, -45)

\* the magnitude of v, sqrt(x * x + y * y), as f32 computes it
Magnitude(v) == FSqrt(FAdd(FMul(v.x, v.x), FMul(v.y, v.y)))

\* |v| <= 1.0 + epsilon
AtMostUnit(v) == FLessEq(Magnitude(v), FAdd(One, Epsilon))

\* |v| = 1.0, to within epsilon
IsUnit(v) == AtMostUnit(v) /\ FLessEq(FSub(One, Epsilon), Magnitude(v))

\* v points the way w does, to within the rounding of v's components
SameDirection(v, w) ==
    /\ FGreater(Dot(v, w), FZero)
    /\ FLessEq(FAbs(Cross(v, w)), FMul(Epsilon, FAdd(FAbs(w.x), FAbs(w.y))))

\* v1 is velocity v after an acceleration a along orientation o: the sum,
\* or the unit vector in its direction when the sum is longer than 1.0
Accelerated(v, o, a, v1) ==
    LET sum == Vec2(FAdd(v.x, FMul(Cos(o), a)), FAdd(v.y, FMul(Sin(o), a)))
    IN  IF FGreater(Magnitude(sum), One)
           THEN IsUnit(v1) /\ SameDirection(v1, sum)
           ELSE v1 = sum

\* C6  Speed cap: from the initial ship, after any sequence of
\* Ship.accelerate calls with any values, interleaved with turns and steps,
\* the speed is at most 1.0 plus the rounding epsilon; a call whose summed
\* velocity exceeds 1.0 is not blocked: it yields the unit vector in the
\* direction of the sum, and a call whose sum does not exceed 1.0 yields the
\* sum.
C6_SpeedCap ==
    /\ []AtMostUnit(board.ship.vel)
    /\ [][(last'.op = "accelerate" /\ nops' = nops + 1) =>
            Accelerated(board.ship.vel, board.ship.orient, last'.val,
                        board'.ship.vel)]_vars

\* C6 witness: an accelerate call has capped the velocity to a unit vector
\* that points neither along the axes nor along the ship's orientation
C6_Witness ==
    /\ last.op = "accelerate"
    /\ IsUnit(board.ship.vel)
    /\ board.ship.vel.x # FZero
    /\ board.ship.vel.y # FZero
    /\ FGreater(FAbs(Cross(board.ship.vel, orient_vec(board.ship))), F32(1, 100))

\* the step from the current state to the next is the intent loop of a tick
IsApply == pc = "events" /\ last'.op = "apply"

\* the step from the current state to the next handles a window-close event
IsClosed == pc = "events" /\ last'.op = "Closed"

Range(s) == {s[i] : i \in DOMAIN s}

NoRepeat(s) == \A i, j \in DOMAIN s : s[i] = s[j] => i = j

\* C7 as claimed  Quit/close termination: when the loop has terminated, on
\* a window-close event or on Q, every held key other than Q has had its
\* intent applied in that tick.
C7_QuitAfterInput ==
    pc = "done" => \A k \in keysdown \ {"Q"} : k \in Range(applied)

\* C7 as amended  The loop terminates in the tick, at once: a window-close
\* event ends it when it is handled, with no intent of that tick applied; Q
\* in the held-key set ends it when the intent loop reaches Q, with the
\* intents of the keys visited before Q applied and no other; the loop ends
\* in no other way, and nothing, Board.step included, runs afterwards.
C7_QuitAtOnce ==
    [][/\ IsClosed =>
             /\ pc' = "done"
             /\ applied' = <<>>
             /\ UNCHANGED <<board, keysdown>>
       /\ (IsApply /\ "Q" \in keysdown) =>
             /\ pc' = "done"
             /\ NoRepeat(applied')
             /\ Range(applied') \subseteq keysdown \ {"Q"}
       /\ (pc # "done" /\ pc' = "done") =>
             IsClosed \/ (IsApply /\ "Q" \in keysdown)
       /\ pc = "done" => UNCHANGED vars]_vars

\* C7 witness: the loop has ended at Q after applying some held key and
\* before applying another
C7_Witness ==
    /\ pc = "done"
    /\ last.op = "apply"
    /\ applied # <<>>
    /\ \E k \in keysdown \ {"Q"} : k \notin Range(applied)

\* 1 if key k is held, else 0
Held(k) == IF k \in keysdown THEN 1 ELSE 0

\* the orientations the turns of the held keys can leave orientation o at:
\* o + 10 degrees for Left, o - 10 degrees for Right, and for both the two
\* f32 sums, (o + 10) - 10 and (o - 10) + 10, one for each order
Turned(o) ==
    IF {"Left", "Right"} \subseteq keysdown
       THEN {FSub(FAdd(o, TurnAngle), TurnAngle), FAdd(FSub(o, TurnAngle), TurnAngle)}
    ELSE IF "Left" \in keysdown THEN {FAdd(o, TurnAngle)}
    ELSE IF "Right" \in keysdown THEN {FSub(o, TurnAngle)}
    ELSE {o}

\* the orientations the ship can have while the intent loop runs from
\* orientation o: before any turn, after one, and after both
Turning(o) ==
    {o} \cup (IF "Left" \in keysdown THEN {FAdd(o, TurnAngle)} ELSE {})
        \cup (IF "Right" \in keysdown THEN {FSub(o, TurnAngle)} ELSE {})
        \cup Turned(o)

\* C8 as claimed  Simultaneous intents: if Left and Up are both held when a
\* tick applies intents, then after the tick the orientation has changed by
\* exactly 10 degrees and the velocity by ACCEL along the pre- or
\* post-rotation orientation vector, and every held key other than Q has
\* had its intent applied exactly once, whatever the iteration order.
C8_SimultaneousIntents ==
    [][IsApply =>
          /\ {"Left", "Up"} \subseteq keysdown =>
                /\ board'.ship.orient = FAdd(board.ship.orient, TurnAngle)
                /\ \E o \in {board.ship.orient, FAdd(board.ship.orient, TurnAngle)} :
                      board'.ship.vel =
                          Vec2(FAdd(board.ship.vel.x, FMul(Cos(o), ACCEL)),
                               FAdd(board.ship.vel.y, FMul(Sin(o), ACCEL)))
          /\ NoRepeat(applied')
          /\ Range(applied') = keysdown \ {"Q"}]_vars

\* C8 as amended  When a tick applies intents and Q is not held, every held
\* key's intent is applied exactly once, whatever the iteration order: the
\* orientation is turned by 10 degrees for Left and back by 10 degrees for
\* Right, and one bullet is fired if Space is held; with Left and Up held and Right and
\* Down not, the orientation has changed by exactly 10 degrees and the
\* velocity is that of one Ship.accelerate(ACCEL) along the pre- or
\* post-rotation orientation vector.  When Q is held, only the keys visited
\* before Q have their intent applied, each once.
C8_IntentsOnce ==
    [][IsApply =>
          /\ NoRepeat(applied')
          /\ Range(applied') \subseteq keysdown \ {"Q"}
          /\ board'.ship.pos = board.ship.pos
          /\ "Q" \notin keysdown =>
                /\ Range(applied') = keysdown
                /\ board'.ship.orient \in Turned(board.ship.orient)
                /\ board'.bulletct = board.bulletct + Held("Space")
                /\ ({"Left", "Up"} \subseteq keysdown /\ "Right" \notin keysdown
                        /\ "Down" \notin keysdown) =>
                      /\ board'.ship.orient = FAdd(board.ship.orient, TurnAngle)
                      /\ \E o \in {board.ship.orient,
                                   FAdd(board.ship.orient, TurnAngle)} :
                            Accelerated(board.ship.vel, o, ACCEL, board'.ship.vel)]_vars

\* C8 witness: Left and Up alone were held and the tick has turned the ship
\* by 10 degrees and accelerated it along the post-rotation orientation
C8_Witness ==
    /\ last.op = "apply"
    /\ pc = "step"
    /\ keysdown = {"Left", "Up"}
    /\ applied = <<"Left", "Up">>
    /\ board.ship.orient = TurnAngle
    /\ board.ship.vel = Vec2(FMul(Cos(TurnAngle), ACCEL), FMul(Sin(TurnAngle), ACCEL))

\* the keys whose arm changes the ship or ends the loop
SteeringKeys == {"Left", "Right", "Up", "Down", "Q"}

\* C9  Fire effect and frame: Board.fire adds exactly one bullet, keyed by
\* the value bulletct had, at the ship's position and with velocity 2.0
\* times the ship's orientation unit vector (from the initial ship: at (0,0)
\* with velocity (2.0, 0)); it adds 1 to bulletct and leaves the ship, every
\* other bullet, the mooks and mookct unchanged, however many bullets are
\* live.  In a tick that also turns the ship the orientation is the one the
\* ship has when the intent loop reaches Space.
C9_FireEffect ==
    [][(IsApply /\ nfired' = nfired + 1) =>
          LET k == board.bulletct
          IN  /\ InsertedFresh(board.bullets, board'.bullets, k)
              /\ board'.bulletct = k + 1
              /\ board'.mooks = board.mooks
              /\ board'.mookct = board.mookct
              /\ board'.bullets[k].pos = board.ship.pos
              /\ \E o \in Turning(board.ship.orient) :
                    board'.bullets[k].vel =
                        Vec2(FMul(Cos(o), RoundInt(2, 0)), FMul(Sin(o), RoundInt(2, 0)))
              /\ keysdown \cap SteeringKeys = {} =>
                    /\ board'.ship = board.ship
                    /\ board'.bullets[k].vel =
                          Vec2(FMul(Cos(board.ship.orient), RoundInt(2, 0)),
                               FMul(Sin(board.ship.orient), RoundInt(2, 0)))
                    /\ board.ship = Ship_new =>
                          board'.bullets[k] =
                              [pos |-> Vec2(FZero, FZero),
                               vel |-> Vec2(RoundInt(2, 0), FZero)]]_vars

\* C9 witness: with Space alone held, a second bullet has just been fired,
\* from a ship that has left the origin, while the first is live
C9_Witness ==
    /\ last.op = "apply"
    /\ keysdown = {"Space"}
    /\ DOMAIN board.bullets = {0, 1}
    /\ board.ship.pos # Vec2(FZero, FZero)
    /\ board.bullets[1].pos = board.ship.pos

\* C11  No failing removal: in every reachable state, after any sequence of
\* fire, add_mook and step operations, no unwrap() on the result of remove
\* has failed, and the next sweep, however the bullet mapping is iterated,
\* removes only keys that are present, each once, and leaves exactly the
\* bullets that are not beyond the limit.
C11_NoFailingRemoval ==
    /\ pc # "panic"
    /\ LET a == Board_advance(board)
       IN  \A order \in Orders(DOMAIN a.bullets) :
              LET ids == to_rm_vec(a, order)
              IN  /\ NoRepeat(ids)
                  /\ Range(ids) \subseteq DOMAIN a.bullets
                  /\ sweep_remove(a.bullets, ids).ok
                  /\ sweep_remove(a.bullets, ids).map = Board_step(board).bullets

\* C11 witness: a step has just swept two bullets at once, with a mook on
\* the board, and the program runs on
C11_Witness ==
    /\ pc = "api"
    /\ last.op = "step"
    /\ board.bulletct = 2
    /\ board.bullets = EmptyMap
    /\ DOMAIN board.mooks = {0}

\* C12 as claimed  Loop phase order: every iteration of the game loop runs
\* one Board.step, then one render of the board the step produced (the
\* board is the same at the end of render as at the end of the step), then
\* polls events, then applies the held keys' intents, in that order: the
\* poll is left only for the intents, also in the iteration in which a
\* window-close event is polled, and the loop repeats or ends only after the
\* intents.
C12_PhaseOrder ==
    [][/\ pc = "step" =>
             /\ IsBoardStep
             /\ board' = Board_step(board)
             /\ ticks' = ticks + 1
             /\ pc' = "render"
             /\ keysdown' = keysdown
       /\ pc = "render" =>
             /\ last'.op = "render"
             /\ last.op = "step"
             /\ pc' = "events"
             /\ UNCHANGED <<board, keysdown, ticks>>
       /\ pc = "events" =>
             /\ ticks' = ticks
             /\ \/ last'.op \in {"Key", "Other", "Closed"}
                      /\ pc' = "events" /\ board' = board
                \/ IsApply /\ keysdown' = keysdown /\ pc' \in {"done", "step"}
       /\ pc \notin {"step", "render", "events"} => UNCHANGED vars]_vars

\* C12 as amended  An iteration of the game loop runs one Board.step,
\* then one render of the board the step produced (the board and the held
\* keys are the same at the end of render as at the end of the step), then
\* polls events (which leave the board alone), then, unless a window-close
\* event was polled, applies the held keys' intents; after the intents the
\* next iteration begins with Board.step, unless Q was held.  A
\* window-close event ends the loop from within the poll, with no intents
\* applied in that iteration; Q ends it from within the intents; nothing
\* else ends it.
C12_PhaseOrderUntilReturn ==
    [][/\ pc = "step" =>
             /\ IsBoardStep
             /\ board' = Board_step(board)
             /\ ticks' = ticks + 1
             /\ pc' = "render"
             /\ keysdown' = keysdown
       /\ pc = "render" =>
             /\ last'.op = "render"
             /\ last.op = "step"
             /\ pc' = "events"
             /\ UNCHANGED <<board, keysdown, ticks>>
       /\ pc = "events" =>
             /\ last.op \in {"render", "Key", "Other"}
             /\ ticks' = ticks
             /\ \/ last'.op \in {"Key", "Other"} /\ pc' = "events" /\ board' = board
                \/ IsClosed /\ pc' = "done" /\ board' = board
                \/ /\ IsApply
                   /\ keysdown' = keysdown
                   /\ pc' = IF "Q" \in keysdown THEN "done" ELSE "step"
       /\ pc = "step" => last.op \in {"add_mook", "apply"}
       /\ pc \notin {"step", "render", "events"} => UNCHANGED vars]_vars

\* C12 witness: the second iteration has stepped and rendered, after the
\* first polled without a window-close event and applied a Space intent,
\* and is about to poll
C12_Witness ==
    /\ pc = "events"
    /\ last.op = "render"
    /\ ticks = 2
    /\ nfired = 1
    /\ DOMAIN board.bullets = {0}
    /\ board.bullets[0].pos # board.ship.pos

\* c is beyond 1.05 in absolute value
BeyondField(c) == FGreater(c, F32(105, 100)) \/ FLess(c, F32(-105, 100))

\* C13  Wrap: for every position, wrap negates the x component exactly when
\* |x| > 1.05 and the y component exactly when |y| > 1.05, each axis by
\* itself; a component of absolute value <= 1.05, 1.05 itself included, is
\* left as it is, and every component keeps its absolute value.
C13_Wrap ==
    [][last'.op = "wrap" =>
          LET v == board.ship.pos
              w == board'.ship.pos
          IN  /\ BeyondField(v.x) => w.x = FNeg(v.x)
              /\ ~BeyondField(v.x) => w.x = v.x
              /\ BeyondField(v.y) => w.y = FNeg(v.y)
              /\ ~BeyondField(v.y) => w.y = v.y
              /\ FAbs(w.x) = FAbs(v.x)
              /\ FAbs(w.y) = FAbs(v.y)
              /\ board' = [board EXCEPT !.ship.pos = w]]_vars

\* C13 witness: one wrap has negated an x one f32 beyond 1.05 and kept a y
\* of exactly 1.05
C13_Witness ==
    /\ last.op = "wrap"
    /\ nops = 1
    /\ board.ship.pos.x = FNeg(Flt(F32(105, 100).m + 1, F32(105, 100).e))
    /\ board.ship.pos.y = F32(105, 100)

\* board b with the ship's orientation set to o, and nothing else changed
Reoriented(b, o) == [b EXCEPT !.ship.orient = o]

\* C14  Drift physics: the Left intent changes the ship's orientation by +10
\* degrees and the Right intent by -10 degrees, and nothing else: velocity,
\* position, health, bullets and mooks stay as they are.  So a tick whose
\* held keys are among Left, Right and keys without an intent changes the
\* board by the orientation only, by 10 degrees for Left and back by 10
\* degrees for Right;
\* and whatever keys are held, the intent loop leaves the velocity alone
\* unless Up or Down is held, and always leaves position, health and mooks.
C14_Drift ==
    /\ [](/\ Intent(board, "Left") =
                Reoriented(board, FAdd(board.ship.orient, TurnAngle))
          /\ Intent(board, "Right") =
                Reoriented(board, FSub(board.ship.orient, TurnAngle)))
    /\ [][IsApply =>
             /\ keysdown \subseteq {"Left", "Right", "A"} =>
                   \E o \in Turned(board.ship.orient) : board' = Reoriented(board, o)
             /\ keysdown \cap {"Up", "Down"} = {} =>
                   board'.ship.vel = board.ship.vel
             /\ board'.ship.pos = board.ship.pos
             /\ board'.ship.health = board.ship.health
             /\ board'.mooks = board.mooks
             /\ \A id \in DOMAIN board.bullets :
                   id \in DOMAIN board'.bullets
                       /\ board'.bullets[id] = board.bullets[id]]_vars

\* C14 witness: a tick with Left alone held has turned a ship that moves
\* along the x axis, and the velocity still points along the x axis
C14_Witness ==
    /\ last.op = "apply"
    /\ keysdown = {"Left"}
    /\ applied = <<"Left">>
    /\ board.ship.orient = TurnAngle
    /\ board.ship.vel = Vec2(ACCEL, FZero)
    /\ FGreater(board.ship.pos.x, FZero)

\* the last operation was a key event, and the key is held exactly if the
\* event was a press
LastEventDecides ==
    last.op = "Key" => (last.key \in keysdown <=> last.val = 1)

\* the step from the current state to the next changes the held-key set as
\* the event it handles says: a press adds its key, a release removes its
\* key, whether or not the key was held, and nothing else changes the set
KeyEventStep ==
    /\ (last'.op = "Key" /\ last'.val = 1) => keysdown' = keysdown \cup {last'.key}
    /\ (last'.op = "Key" /\ last'.val = 0) => keysdown' = keysdown \ {last'.key}
    /\ last'.op # "Key" => keysdown' = keysdown
    /\ last'.op = "Key" => pc = "events" /\ pc' = "events" /\ board' = board

\* C15 as claimed  Held-key set semantics: the held-key set holds exactly
\* the keys whose most recent event is a press; a repeated press or the
\* release of a key not held changes nothing and fails nothing; only press
\* and release events change the set; and in every tick every key pressed
\* and not yet released has its intent applied, and no other key has.
C15_HeldKeys ==
    /\ []LastEventDecides
    /\ [][/\ KeyEventStep
          /\ IsApply => Range(applied') = keysdown \ {"Q"}]_vars

\* C15 as amended  The same of the set; and in a tick that reaches the
\* intent loop the keys whose intent is applied are held keys, each applied
\* once: every held key when Q is not held, and the held keys visited before
\* Q when Q is held; a tick ended by a window-close event applies none.  A
\* key whose most recent event is a release has no intent applied.
C15_HeldKeysVisited ==
    /\ []LastEventDecides
    /\ [][/\ KeyEventStep
          /\ IsApply =>
                /\ NoRepeat(applied')
                /\ Range(applied') \subseteq keysdown \ {"Q"}
                /\ "Q" \notin keysdown => Range(applied') = keysdown
          /\ IsClosed => applied' = <<>> /\ applied = <<>>]_vars

\* C15 witness: Up was pressed in the first tick, accelerated the ship, and
\* has just been pressed again in the second tick: it is still held
C15_Witness ==
    /\ pc = "events"
    /\ ticks = 2
    /\ nevents = 2
    /\ last = Op("Key", "Up", 1)
    /\ keysdown = {"Up"}
    /\ board.ship.vel = Vec2(ACCEL, FZero)

\* the bullet ids issued within the bounds
BulletIds == 0 .. (MaxBullets - 1)

\* |v| = 2.0, to within 2.0 * epsilon
IsMuzzleSpeed(v) ==
    /\ FLessEq(FSub(RoundInt(2, 0), FMul(RoundInt(2, 0), Epsilon)), Magnitude(v))
    /\ FLessEq(Magnitude(v), FAdd(RoundInt(2, 0), FMul(RoundInt(2, 0), Epsilon)))

\* C16  Bullet eventually swept: while the loop keeps ticking, every bullet
\* Board.fire has inserted is eventually removed from the bullet mapping;
\* for its velocity has magnitude 2.0 and never changes, and every
\* Board.step moves a bullet it keeps by velocity * STEP, without a wrap.
\* With the fires bounded, the live bullets are never more than the fires.
C16_BulletEventuallySwept ==
    /\ \A id \in BulletIds :
          (id \in DOMAIN board.bullets) ~> (id \notin DOMAIN board.bullets)
    /\ [](/\ \A id \in DOMAIN board.bullets : IsMuzzleSpeed(board.bullets[id].vel)
          /\ Cardinality(DOMAIN board.bullets) <= nfired)
    /\ [][IsBoardStep =>
             \A id \in DOMAIN board'.bullets :
                /\ id \in DOMAIN board.bullets
                /\ board'.bullets[id].vel = board.bullets[id].vel
                /\ board'.bullets[id].pos =
                      Advanced(board.bullets[id].pos, board.bullets[id].vel)]_vars

\* C16 witness: the one bullet fired, from a turned ship, was live and has
\* been swept
C16_Witness ==
    /\ last.op = "step"
    /\ nfired = 1
    /\ board.bulletct = 1
    /\ board.bullets = EmptyMap
    /\ board.ship.orient # FZero

\* C17  Ship stays in the play field: in every state, so after every
\* Ship.step, each component of the ship's position has absolute value at
\* most 1.05 + STEP = 1.07.
C17_ShipInField ==
    /\ FLessEq(FAbs(board.ship.pos.x), F32(107, 100))
    /\ FLessEq(FAbs(board.ship.pos.y), F32(107, 100))

\* every mook ever spawned is in the mapping, with health 1.0 and level 5
MooksIntact ==
    /\ DOMAIN board.mooks = 0 .. (board.mookct - 1)
    /\ board.mookct = nspawned
    /\ \A m \in DOMAIN board.mooks :
          board.mooks[m].health = RoundInt(1, 0) /\ board.mooks[m].level = 5

\* C18  Mooks are never removed or damaged: in every reachable state the
\* mook mapping's keys are exactly 0 .. mookct-1 and every mook has health
\* 1.0 and level 5; no operation removes a mook or changes a mook's health,
\* level or velocity; Board.step changes of a mook only the position and
\* the orientation, which grows by 0.1, and every other operation leaves
\* the mooks it finds as they are.
C18_MooksIntact ==
    /\ []MooksIntact
    /\ [][\A m \in DOMAIN board.mooks :
             /\ m \in DOMAIN board'.mooks
             /\ board'.mooks[m].health = board.mooks[m].health
             /\ board'.mooks[m].level = board.mooks[m].level
             /\ board'.mooks[m].vel = board.mooks[m].vel
             /\ IF IsBoardStep
                   THEN board'.mooks[m].orient =
                            FAdd(board.mooks[m].orient, F32(1, 10))
                   ELSE board'.mooks[m] = board.mooks[m]]_vars

\* C18 witness: a mook that moves has been advanced by two steps, while
\* two bullets were fired, and is in the mapping
C18_Witness ==
    /\ last.op = "step"
    /\ msteps = 2
    /\ nfired = 2
    /\ DOMAIN board.mooks = {0}
    /\ FGreater(board.mooks[0].vel.x, FZero)
    /\ FGreater(board.mooks[0].pos.x, One)

\* |c| <= 1.06 = 1.05 + 0.5 * STEP
WithinMookReach(c) == FLessEq(c, F32(106, 100)) /\ FLessEq(F32(-106, 100), c)

\* C19  Mook stays in the play field: a mook as add_mook spawns it has each
\* position component in [-1, 1] and each velocity component in
\* [-0.5, 0.5]; the velocity stays so, and after any number of Board.step
\* calls each position component has absolute value at most 1.06; a
\* component that lies beyond 1.05, as wrap has left it, is within 1.05
\* after the next step.
C19_MookInField ==
    /\ [](\A m \in DOMAIN board.mooks :
             LET mk == board.mooks[m]
             IN  /\ msteps = 0 => /\ FLessEq(FAbs(mk.pos.x), One)
                                  /\ FLessEq(FAbs(mk.pos.y), One)
                 /\ FLessEq(FAbs(mk.vel.x), F32(1, 2))
                 /\ FLessEq(FAbs(mk.vel.y), F32(1, 2))
                 /\ WithinMookReach(mk.pos.x)
                 /\ WithinMookReach(mk.pos.y))
    /\ [][IsBoardStep =>
             \A m \in DOMAIN board.mooks :
                /\ BeyondField(board.mooks[m].pos.x) =>
                      ~BeyondField(board'.mooks[m].pos.x)
                /\ BeyondField(board.mooks[m].pos.y) =>
                      ~BeyondField(board'.mooks[m].pos.y)]_vars

\* C19 witness: a mook that moves towards -x, and towards -y below the x
\* axis, has passed x = -1.05 and been negated: it lies beyond 1.05 on the
\* other side, still moving towards -x
C19_Witness ==
    /\ last.op = "step"
    /\ 0 \in DOMAIN board.mooks
    /\ FGreater(board.mooks[0].pos.x, F32(105, 100))
    /\ FLess(board.mooks[0].vel.x, FZero)
    /\ FLess(board.mooks[0].pos.y, FZero)

=============================================================================
